---- MODULE Spec2Model ----
(***************************************************************************)
(* A model of the sdp-parser crate: the nom-based field parsers for the    *)
(* v=, o= and s= lines and the SessionDescription::from_str driver.        *)
(*                                                                         *)
(* Text (&str) is a sequence of one-character strings.  A parser result    *)
(* (nom's IResult, extended with the panic outcome of unwrap() and         *)
(* unimplemented!()) is a record [kind, rem, val]:                         *)
(*   kind = "Ok"          Ok((rem, val))                                   *)
(*   kind = "Error"       Err(nom::Err::Error(_))                          *)
(*   kind = "Incomplete"  Err(nom::Err::Incomplete(_))                     *)
(*   kind = "Panic"       the call unwound with a panic                    *)
(***************************************************************************)
EXTENDS Integers, Sequences, FiniteSets, TLC

CR == "\r"
LF == "\n"
SP == " "
HT == "\t"
CRLF == <<CR, LF>>

Take(s, n) == SubSeq(s, 1, n)
Drop(s, n) == SubSeq(s, n + 1, Len(s))

StartsWith(s, t) == Len(s) >= Len(t) /\ Take(s, Len(t)) = t

Ok(rem, val) == [kind |-> "Ok", rem |-> rem, val |-> val]
Fail(kind) == [kind |-> kind, rem |-> <<>>, val |-> <<>>]

----------------------------------------------------------------------------
(* Character classes of nom::character (ASCII only).                       *)

DigitChars == {"0", "1", "2", "3", "4", "5", "6", "7", "8", "9"}
LowerChars == {"a", "b", "c", "d", "e", "f", "g", "h", "i", "j", "k", "l", "m",
               "n", "o", "p", "q", "r", "s", "t", "u", "v", "w", "x", "y", "z"}
UpperChars == {"A", "B", "C", "D", "E", "F", "G", "H", "I", "J", "K", "L", "M",
               "N", "O", "P", "Q", "R", "S", "T", "U", "V", "W", "X", "Y", "Z"}
AlphaChars == LowerChars \cup UpperChars
AlnumChars == AlphaChars \cup DigitChars
MultispaceChars == {SP, HT, CR, LF}

DigitSeq == <<"0", "1", "2", "3", "4", "5", "6", "7", "8", "9">>
DigitVal(c) == (CHOOSE i \in 1..10 : DigitSeq[i] = c) - 1

(* Length of the longest prefix of s whose characters all lie in S.        *)
RunLen(S, s) ==
    IF \A i \in 1..Len(s) : s[i] \in S THEN Len(s)
    ELSE (CHOOSE i \in 1..Len(s) : s[i] \notin S /\ \A j \in 1..(i - 1) : s[j] \in S) - 1

----------------------------------------------------------------------------
(* nom primitives, complete mode unless named streaming.                   *)

tag(t, s) == IF StartsWith(s, t) THEN Ok(Drop(s, Len(t)), t) ELSE Fail("Error")

(* split_at_position1_complete: the maximal non-empty run of a class.      *)
SplitAt(s, n) == IF n = 0 THEN Fail("Error") ELSE Ok(Drop(s, n), Take(s, n))

Run1(S, s) == SplitAt(s, RunLen(S, s))

alpha1(s) == Run1(AlphaChars, s)
alphanumeric1(s) == Run1(AlnumChars, s)
digit1(s) == Run1(DigitChars, s)
multispace1(s) == Run1(MultispaceChars, s)

(* line_ending as it would be if it took "\r\n" only.                      *)
line_ending_crlf_only(s) ==
    IF StartsWith(s, CRLF) THEN Ok(Drop(s, 2), CRLF) ELSE Fail("Error")

(* "\n" or "\r\n".                                                          *)
line_ending(s) ==
    IF StartsWith(s, <<LF>>) THEN Ok(Drop(s, 1), <<LF>>)
    ELSE IF StartsWith(s, CRLF) THEN Ok(Drop(s, 2), CRLF)
    ELSE Fail("Error")

NotLineEndChars(s) == {s[i] : i \in 1..Len(s)} \ {CR, LF}

(* character::complete::not_line_ending: everything before the first CR or *)
(* LF; a CR that does not start CRLF is an error; no line end at all takes *)
(* the whole input.                                                        *)
NotLineEndingAt(s, n) ==
    IF n = Len(s) THEN Ok(<<>>, s)
    ELSE IF s[n + 1] = CR /\ ~StartsWith(Drop(s, n), CRLF) THEN Fail("Error")
    ELSE Ok(Drop(s, n), Take(s, n))

not_line_ending(s) == NotLineEndingAt(s, RunLen(NotLineEndChars(s), s))

(* character::streaming::not_line_ending: as above, but an input with no   *)
(* CR or LF, or one that ends right after a CR, is Incomplete.             *)
NotLineEndingStreamingAt(s, n) ==
    IF n = Len(s) THEN Fail("Incomplete")
    ELSE IF s[n + 1] = CR /\ Len(s) = n + 1 THEN Fail("Incomplete")
    ELSE IF s[n + 1] = CR /\ ~StartsWith(Drop(s, n), CRLF) THEN Fail("Error")
    ELSE Ok(Drop(s, n), Take(s, n))

not_line_ending_streaming(s) ==
    NotLineEndingStreamingAt(s, RunLen(NotLineEndChars(s), s))

----------------------------------------------------------------------------
(* Combinators.  r is the result of the parser that ran first, Q the       *)
(* parser run on what it left.                                             *)

(* sequence::preceded: drop the first value, keep the second.              *)
preceded(r, Q(_)) == IF r.kind # "Ok" THEN r ELSE Q(r.rem)

SecondOf(r, q) == IF q.kind # "Ok" THEN q ELSE Ok(q.rem, r.val)

(* sequence::terminated: keep the first value, drop the second.            *)
terminated(r, Q(_)) == IF r.kind # "Ok" THEN r ELSE SecondOf(r, Q(r.rem))

Joined(r, q) == IF q.kind # "Ok" THEN q ELSE Ok(q.rem, Append(r.val, q.val))

(* sequence::tuple and chains of `let (tail, x) = p(tail)?;`: the values   *)
(* collect in order, the first failure ends the chain.                     *)
tuple(r, Q(_)) == IF r.kind # "Ok" THEN r ELSE Joined(r, Q(r.rem))

(* combinator::map                                                         *)
map(r, F(_)) == IF r.kind # "Ok" THEN r ELSE Ok(r.rem, F(r.val))

(* combinator::opt: a recoverable Error becomes success on the same input; *)
(* Incomplete and panics pass through.                                     *)
opt(r, s) == IF r.kind = "Error" THEN Ok(s, <<>>) ELSE r

(* branch::alt of two: the second runs on the same input, and only after  *)
(* a recoverable Error of the first.                                       *)
alt(r, Q(_), s) == IF r.kind = "Error" THEN Q(s) ELSE r

opt_line_ending(s) == opt(line_ending(s), s)

----------------------------------------------------------------------------
(* Unsigned integers.  character::complete::u8 reads the maximal digit run *)
(* with checked_mul / checked_add: no digit, or a value above the type's   *)
(* maximum, is an Error.                                                   *)

U8Max == 255

(* The running value, or -1 once checked_mul / checked_add gave None.      *)
RECURSIVE U8Acc(_, _, _)
U8Acc(s, i, value) ==
    IF i > Len(s) THEN value
    ELSE IF value * 10 + DigitVal(s[i]) > U8Max THEN -1
    ELSE U8Acc(s, i + 1, value * 10 + DigitVal(s[i]))

U8Result(rem, v) == IF v < 0 THEN Fail("Error") ELSE Ok(rem, v)

U8Run(s, n) ==
    IF n = 0 THEN Fail("Error") ELSE U8Result(Drop(s, n), U8Acc(Take(s, n), 1, 0))

u8(s) == U8Run(s, RunLen(DigitChars, s))

(* A u64 value is kept as its decimal numeral without leading zeros, so    *)
(* that the full 64-bit range is representable; U64MaxNumeral is u64::MAX. *)
U64MaxNumeral == <<"1", "8", "4", "4", "6", "7", "4", "4", "0", "7",
                   "3", "7", "0", "9", "5", "5", "1", "6", "1", "5">>

StripZeros(ds, z) == IF z = Len(ds) THEN <<"0">> ELSE Drop(ds, z)

Numeral(ds) == StripZeros(ds, RunLen({"0"}, ds))

(* a > b for numerals of equal length.                                     *)
NumeralGreater(a, b) ==
    \E i \in 1..Len(a) :
        /\ DigitVal(a[i]) > DigitVal(b[i])
        /\ \A j \in 1..(i - 1) : a[j] = b[j]

ExceedsU64(m) ==
    \/ Len(m) > Len(U64MaxNumeral)
    \/ Len(m) = Len(U64MaxNumeral) /\ NumeralGreater(m, U64MaxNumeral)

U64Result(rem, m) == IF ExceedsU64(m) THEN Fail("Error") ELSE Ok(rem, m)

U64Run(s, n) ==
    IF n = 0 THEN Fail("Error") ELSE U64Result(Drop(s, n), Numeral(Take(s, n)))

u64(s) == U64Run(s, RunLen(DigitChars, s))

----------------------------------------------------------------------------
(* std::net address parsing, reached through s.parse::<IpAddr>().  A read  *)
(* is a record [ok, rem, val]; a failed read leaves the cursor where it    *)
(* was (read_atomically).                                                  *)

NoRead == [ok |-> FALSE, rem |-> <<>>, val |-> <<>>]
Read(rem, val) == [ok |-> TRUE, rem |-> rem, val |-> val]

U16Max == 65535
HexSeq == <<"0", "1", "2", "3", "4", "5", "6", "7", "8", "9",
            "a", "b", "c", "d", "e", "f">>
HexUpper == <<"A", "B", "C", "D", "E", "F">>
HexChars == {HexSeq[i] : i \in 1..16} \cup {HexUpper[i] : i \in 1..6}
HexVal(c) ==
    IF c \in {HexUpper[i] : i \in 1..6}
    THEN 9 + (CHOOSE i \in 1..6 : HexUpper[i] = c)
    ELSE (CHOOSE i \in 1..16 : HexSeq[i] = c) - 1

RECURSIVE RadixValue(_, _, _)
RadixValue(ds, radix, acc) ==
    IF ds = <<>> THEN acc
    ELSE RadixValue(Tail(ds), radix, acc * radix + HexVal(Head(ds)))

NumberInRange(rem, v, maxValue) == IF v > maxValue THEN NoRead ELSE Read(rem, v)

NumberRun(s, n, radix, maxDigits, allowZeroPrefix, maxValue) ==
    IF n = 0 \/ n > maxDigits THEN NoRead
    ELSE IF ~allowZeroPrefix /\ s[1] = "0" /\ n > 1 THEN NoRead
    ELSE NumberInRange(Drop(s, n), RadixValue(Take(s, n), radix, 0), maxValue)

(* Parser::read_number: the maximal digit run, at most maxDigits long,     *)
(* within the type's range, with an optional ban on a leading zero.        *)
read_number(s, radix, maxDigits, allowZeroPrefix, maxValue) ==
    NumberRun(s, RunLen(IF radix = 10 THEN DigitChars ELSE HexChars, s),
              radix, maxDigits, allowZeroPrefix, maxValue)

(* Parser::read_ipv4_addr: four decimal octets separated by '.'.           *)
RECURSIVE ReadOctets(_, _, _)
NextOctet(g, i, acc) ==
    IF g.ok THEN ReadOctets(g.rem, i + 1, Append(acc, g.val)) ELSE NoRead

ReadOctets(s, i, acc) ==
    IF i = 4 THEN Read(s, acc)
    ELSE IF i > 0 /\ ~StartsWith(s, <<".">>) THEN NoRead
    ELSE NextOctet(read_number(IF i = 0 THEN s ELSE Drop(s, 1), 10, 3, FALSE, U8Max),
                   i, acc)

read_ipv4_addr(s) == ReadOctets(s, 0, <<>>)

(* read_groups of Parser::read_ipv6_addr: up to limit 16-bit groups        *)
(* separated by ':', ending early at an embedded IPv4 address.             *)
Groups(size, ipv4, groups, rem) ==
    [size |-> size, ipv4 |-> ipv4, groups |-> groups, rem |-> rem]

RECURSIVE read_groups(_, _, _, _)
NextGroup(s, i, limit, acc, v4, g) ==
    IF v4.ok
    THEN Groups(i + 2, TRUE,
                acc \o <<v4.val[1] * 256 + v4.val[2], v4.val[3] * 256 + v4.val[4]>>,
                v4.rem)
    ELSE IF g.ok THEN read_groups(g.rem, i + 1, limit, Append(acc, g.val))
    ELSE Groups(i, FALSE, acc, s)

GroupAt(s, i, limit, acc, body) ==
    NextGroup(s, i, limit, acc,
              IF i < limit - 1 THEN read_ipv4_addr(body) ELSE NoRead,
              read_number(body, 16, 4, TRUE, U16Max))

read_groups(s, i, limit, acc) ==
    IF i >= limit THEN Groups(limit, FALSE, acc, s)
    ELSE IF i > 0 /\ ~StartsWith(s, <<":">>) THEN Groups(i, FALSE, acc, s)
    ELSE GroupAt(s, i, limit, acc, IF i = 0 THEN s ELSE Drop(s, 1))

Ipv6Joined(head, tl) ==
    Read(tl.rem,
         head.groups \o [k \in 1..(8 - head.size - tl.size) |-> 0] \o tl.groups)

Ipv6After(head) ==
    IF head.size = 8 THEN Read(head.rem, head.groups)
    ELSE IF head.ipv4 \/ ~StartsWith(head.rem, <<":", ":">>) THEN NoRead
    ELSE Ipv6Joined(head, read_groups(Drop(head.rem, 2), 0, 8 - (head.size + 1), <<>>))

read_ipv6_addr(s) == Ipv6After(read_groups(s, 0, 8, <<>>))

V4(octets) == [family |-> "V4", bits |-> octets]
V6(groups) == [family |-> "V6", bits |-> groups]

WholeText(a, F(_)) == IF a.ok /\ a.rem = <<>> THEN Read(<<>>, F(a.val)) ELSE NoRead

IpAddrOf(a4, s) ==
    IF a4.ok THEN WholeText(a4, V4) ELSE WholeText(read_ipv6_addr(s), V6)

(* IpAddr::from_str: an IPv4 or else an IPv6 address that spans the whole  *)
(* text; val is the address, ok is FALSE for Err(AddrParseError).          *)
ParseIpAddr(s) == IpAddrOf(read_ipv4_addr(s), s)

----------------------------------------------------------------------------
(* version.rs                                                              *)

Version(v) == [version |-> v]

VersionNumber(s) == terminated(u8(s), opt_line_ending)

(* map(preceded(tag("v="), terminated(u8, opt(line_ending))), Version::new) *)
parse_version(input) ==
    map(preceded(tag(<<"v", "=">>, input), VersionNumber), Version)

----------------------------------------------------------------------------
(* session_name.rs                                                         *)

SessionName(name) == [name |-> name]

SessionNameText(s) == terminated(not_line_ending(s), opt_line_ending)

(* map(preceded(tag("s="), terminated(not_line_ending, opt(line_ending))), *)
(*     SessionName::new)                                                   *)
parse_session_name(input) ==
    map(preceded(tag(<<"s", "=">>, input), SessionNameText), SessionName)

----------------------------------------------------------------------------
(* origin.rs                                                               *)

Origin(username, session_id, session_version, nettype, addrtype, unicast_address) ==
    [username |-> username, session_id |-> session_id,
     session_version |-> session_version, nettype |-> nettype,
     addrtype |-> addrtype, unicast_address |-> unicast_address]

(* map(alpha1, |s| NetType::from_str(s).unwrap()): a panic on any name but *)
(* IN.                                                                     *)
NetTypeFromStrUnwrap(r) ==
    IF r.kind # "Ok" THEN r
    ELSE IF r.val = <<"I", "N">> THEN Ok(r.rem, "IN")
    ELSE Fail("Panic")

(* map(alphanumeric1, |s| AddrType::from_str(s).unwrap())                  *)
AddrTypeFromStrUnwrap(r) ==
    IF r.kind # "Ok" THEN r
    ELSE IF r.val = <<"I", "P", "4">> THEN Ok(r.rem, "IP4")
    ELSE IF r.val = <<"I", "P", "6">> THEN Ok(r.rem, "IP6")
    ELSE Fail("Panic")

dash(s) == tag(<<"-">>, s)

(* terminated(alt((alphanumeric1, tag("-"))), multispace1)                 *)
parse_username(input) ==
    terminated(alt(alphanumeric1(input), dash, input), multispace1)

parse_session_id(input) == terminated(digit1(input), multispace1)

parse_session_version(input) == terminated(u64(input), multispace1)

parse_nettype(input) == terminated(NetTypeFromStrUnwrap(alpha1(input)), multispace1)

parse_addrtype(input) ==
    terminated(AddrTypeFromStrUnwrap(alphanumeric1(input)), multispace1)

dot(s) == tag(<<".">>, s)
OctetDot(s) == terminated(u8(s), dot)
OctetLineEnding(s) == terminated(u8(s), line_ending)

(* First branch of parse_ip_address: u8 "." u8 "." u8 "." u8 line_ending.  *)
DottedQuad(input) ==
    map(tuple(tuple(tuple(tuple(Ok(input, <<>>), OctetDot), OctetDot), OctetDot),
              OctetLineEnding),
        V4)

(* s.parse::<IpAddr>().unwrap() under map.                                 *)
IpAddrUnwrap(rem, ip) == IF ip.ok THEN Ok(rem, ip.val) ELSE Fail("Panic")

ParsedAddress(r) == IF r.kind # "Ok" THEN r ELSE IpAddrUnwrap(r.rem, ParseIpAddr(r.val))

(* Second branch: the text up to the line end, parsed by IpAddr::from_str. *)
AddressText(input) ==
    ParsedAddress(terminated(not_line_ending_streaming(input), line_ending))

parse_ip_address(input) == alt(DottedQuad(input), AddressText, input)

OriginOf(f) == Origin(f[1], f[2], f[3], f[4], f[5], f[6])

OriginStart(r) == IF r.kind # "Ok" THEN r ELSE Ok(r.rem, <<>>)

parse_origin(input) ==
    map(tuple(tuple(tuple(tuple(tuple(tuple(
            OriginStart(tag(<<"o", "=">>, input)),
            parse_username), parse_session_id), parse_session_version),
            parse_nettype), parse_addrtype), parse_ip_address),
        OriginOf)

----------------------------------------------------------------------------
(* mod.rs                                                                  *)

KeyOf(input, p) ==
    IF p.kind # "Ok" THEN p
    ELSE IF p.val = <<"v">> THEN Ok(input, "Version")
    ELSE IF p.val = <<"o">> THEN Ok(input, "Origin")
    ELSE IF p.val = <<"s">> THEN Ok(input, "SessionName")
    ELSE Fail("Panic")

(* peek(alpha1) leaves the input where it was; a letter run other than     *)
(* "v", "o" or "s" reaches unimplemented!().                               *)
peek_key(input) == KeyOf(input, alpha1(input))

SessionDescription(version, origin, session_name) ==
    [version |-> version, origin |-> origin, session_name |-> session_name]

(* The values from_str starts from (mod.rs lines 43-54).                   *)
InitialVersion == Version(0)
InitialOrigin == Origin(<<>>, <<>>, <<"0">>, "IN", "IP4", V4(<<0, 0, 0, 0>>))
InitialSessionName == SessionName(<<>>)

----------------------------------------------------------------------------
(* Inputs.  An input is the concatenation of at most MaxLines lines; the   *)
(* o= lines are built from tables of field texts, each text paired with    *)
(* the value it denotes (valid = FALSE: the text denotes no value).        *)

MaxLines == 3

Usernames == {<<"j", "d">>, <<"-">>, <<"j", "-", "d">>}
SessionIds == {<<"1">>, <<"0", "7">>}
SessionVersions ==
    {[text |-> <<"2">>, valid |-> TRUE, value |-> <<"2">>],
     [text |-> <<"0", "3">>, valid |-> TRUE, value |-> <<"3">>],
     [text |-> <<"1", "8", "4", "4", "6", "7", "4", "4", "0", "7",
                 "3", "7", "0", "9", "5", "5", "1", "6", "1", "6">>,
      valid |-> FALSE, value |-> <<>>]}
NetTypes == {<<"I", "N">>, <<"I", "P">>}
AddrTypes ==
    {[text |-> <<"I", "P", "4">>, valid |-> TRUE, value |-> "IP4"],
     [text |-> <<"I", "P", "6">>, valid |-> TRUE, value |-> "IP6"],
     [text |-> <<"I", "P", "5">>, valid |-> FALSE, value |-> ""]}
Addresses ==
    {[text |-> <<"1", ".", "2", ".", "3", ".", "4">>, valid |-> TRUE,
      value |-> V4(<<1, 2, 3, 4>>)],
     [text |-> <<":", ":", "1">>, valid |-> TRUE,
      value |-> V6(<<0, 0, 0, 0, 0, 0, 0, 1>>)],
     [text |-> <<"2", "0", "0", "1", ":", "d", "b", "8", ":", ":", "1">>,
      valid |-> TRUE, value |-> V6(<<8193, 3512, 0, 0, 0, 0, 0, 1>>)],
     [text |-> <<"2", "5", "6", ".", "1", ".", "1", ".", "1">>, valid |-> FALSE,
      value |-> <<>>],
     [text |-> <<"h", "o", "s", "t">>, valid |-> FALSE, value |-> <<>>]}
Terminators == {CRLF, <<LF>>, <<>>}
Followers == {<<>>, <<"s", "=", "x", CR, LF>>}

OriginLine(un, id, sv, nt, at, ua) ==
    <<"o", "=">> \o un \o <<SP>> \o id \o <<SP>> \o sv \o <<SP>> \o nt
        \o <<SP>> \o at \o <<SP>> \o ua

OriginInputs ==
    {OriginLine(un, id, sv.text, nt, at.text, ua.text) \o term \o next :
        un \in Usernames, id \in SessionIds, sv \in SessionVersions,
        nt \in NetTypes, at \in AddrTypes, ua \in Addresses,
        term \in Terminators, next \in Followers}

VersionBodies ==
    {<<"0">>, <<"1">>, <<"0", "0", "7">>, <<"2", "5", "5">>, <<"2", "5", "6">>,
     <<"x">>, <<>>}
VersionInputs ==
    {<<"v", "=">> \o b \o term \o next :
        b \in VersionBodies, term \in Terminators \cup {<<CR>>}, next \in Followers}

SessionNameBodies == {<<"x">>, <<>>, <<SP>>, <<"-">>, <<"a", SP, "b">>}
SessionNameInputs ==
    {<<"s", "=">> \o b \o term \o next :
        b \in SessionNameBodies, term \in Terminators \cup {<<CR>>},
        next \in Followers}

(* Lines of a whole description: the three implemented lines, a t= line    *)
(* (a letter from_str does not implement), a line that starts with no      *)
(* letter, and two lines that end at end of input.                         *)
GoodOrigin ==
    OriginLine(<<"j", "d">>, <<"1">>, <<"2">>, <<"I", "N">>, <<"I", "P", "4">>,
               <<"1", ".", "2", ".", "3", ".", "4">>)
DescriptionLines ==
    {<<"v", "=", "0">> \o CRLF, <<"v", "=", "1">> \o CRLF, GoodOrigin \o CRLF,
     <<"s", "=", "x">> \o CRLF, <<"s", "=">> \o CRLF, <<"t", "=", "0">> \o CRLF,
     <<"=", "0">> \o CRLF, <<"v", "=", "0">>, <<"s", "=", "x">>}

Extended(ds) == ds \cup {d \o l : d \in ds, l \in DescriptionLines}

RECURSIVE Descriptions(_)
Descriptions(n) == IF n = 0 THEN {<<>>} ELSE Extended(Descriptions(n - 1))

(* The good o= line with one of its five field separators replaced: by a   *)
(* tab, by a line break, or by a space and a line break.                   *)
Separators == {<<SP>>, <<HT>>, <<LF>>, CRLF, <<SP, LF>>}
SeparatorAt(i, p, sep) == IF i = p THEN sep ELSE <<SP>>
SeparatedOrigin(p, sep) ==
    <<"o", "=", "j", "d">> \o SeparatorAt(1, p, sep) \o <<"1">>
        \o SeparatorAt(2, p, sep) \o <<"2">>
        \o SeparatorAt(3, p, sep) \o <<"I", "N">>
        \o SeparatorAt(4, p, sep) \o <<"I", "P", "4">>
        \o SeparatorAt(5, p, sep) \o <<"1", ".", "2", ".", "3", ".", "4">>
SeparatedOriginInputs ==
    {SeparatedOrigin(p, sep) \o term \o next :
        p \in 1..5, sep \in Separators, term \in {CRLF, <<LF>>},
        next \in Followers}

Inputs == Descriptions(MaxLines) \cup OriginInputs \cup VersionInputs
              \cup SessionNameInputs \cup SeparatedOriginInputs

----------------------------------------------------------------------------
(* State: one call on one input.  op is the function called, pc the place  *)
(* the call has reached; tail, version, origin and session_name are the    *)
(* locals of from_str declared before its loop, inner_tail and key the     *)
(* bindings made by the let inside the loop body (which shadows tail);     *)
(* ret is what the call returned.  iterations is an auxiliary variable,    *)
(* not one of the program: the number of times the loop body was entered.  *)
(* The model follows a call for at most MaxIterations entries.             *)

MaxIterations == 4

VARIABLES input, op, pc, tail, inner_tail, key, version, origin, session_name, ret,
          iterations

vars == <<input, op, pc, tail, inner_tail, key, version, origin, session_name, ret,
          iterations>>

locals == <<tail, inner_tail, key, version, origin, session_name>>

Init ==
    /\ input \in Inputs
    /\ op = "none"
    /\ pc = "start"
    /\ tail = input
    /\ inner_tail = <<>>
    /\ key = "none"
    /\ version = InitialVersion
    /\ origin = InitialOrigin
    /\ session_name = InitialSessionName
    /\ ret = Fail("None")
    /\ iterations = 0

(* A direct call of one parser function on the input.                      *)
Returned(name, r) ==
    /\ pc = "start"
    /\ op' = name
    /\ ret' = r
    /\ pc' = IF r.kind = "Panic" THEN "panicked" ELSE "done"
    /\ UNCHANGED <<input, locals, iterations>>

CallPeekKey == Returned("peek_key", peek_key(input))
CallParseVersion == Returned("parse_version", parse_version(input))
CallParseSessionName == Returned("parse_session_name", parse_session_name(input))
CallParseOrigin == Returned("parse_origin", parse_origin(input))

(* SessionDescription::from_str(input), one step per loop position.        *)
CallFromStr ==
    /\ pc = "start"
    /\ op' = "from_str"
    /\ pc' = "while"
    /\ UNCHANGED <<input, locals, ret, iterations>>

(* while !tail.is_empty(), and the Ok(..) after the loop.                  *)
WhileTest ==
    /\ pc = "while"
    /\ IF tail = <<>>
       THEN /\ pc' = "done"
            /\ ret' = Ok(<<>>, SessionDescription(version, origin, session_name))
       ELSE /\ pc' = "peek"
            /\ UNCHANGED ret
    /\ UNCHANGED <<input, op, locals, iterations>>

Peeked(r) ==
    IF r.kind = "Ok"
    THEN /\ inner_tail' = r.rem
         /\ key' = r.val
         /\ pc' = "match"
         /\ UNCHANGED ret
    ELSE /\ pc' = "panicked"
         /\ ret' = Fail("Panic")
         /\ UNCHANGED <<inner_tail, key>>

(* let (mut tail, key) = peek_key::<()>(tail).unwrap();                    *)
PeekKey ==
    /\ pc = "peek"
    /\ iterations < MaxIterations
    /\ iterations' = iterations + 1
    /\ Peeked(peek_key(tail))
    /\ UNCHANGED <<input, op, tail, version, origin, session_name>>

(* The end of a match arm: tail = rem assigns the inner binding; an empty  *)
(* remainder breaks out of the loop to the final Ok(..), anything else     *)
(* goes back to the loop test, which reads the outer tail.                 *)
ArmEnd(rem, v, o, s) ==
    /\ inner_tail' = rem
    /\ IF rem = <<>>
       THEN /\ pc' = "done"
            /\ ret' = Ok(<<>>, SessionDescription(v, o, s))
       ELSE /\ pc' = "while"
            /\ UNCHANGED ret

(* .unwrap() on the Err of a field parser, or a panic inside it.           *)
ArmPanic ==
    /\ pc' = "panicked"
    /\ ret' = Fail("Panic")
    /\ UNCHANGED <<inner_tail, version, origin, session_name>>

VersionArm(r) ==
    IF r.kind = "Ok"
    THEN /\ version' = r.val
         /\ ArmEnd(r.rem, r.val, origin, session_name)
         /\ UNCHANGED <<origin, session_name>>
    ELSE ArmPanic

MatchVersion ==
    /\ pc = "match"
    /\ key = "Version"
    /\ VersionArm(parse_version(inner_tail))
    /\ UNCHANGED <<input, op, tail, key, iterations>>

OriginArm(r) ==
    IF r.kind = "Ok"
    THEN /\ origin' = r.val
         /\ ArmEnd(r.rem, version, r.val, session_name)
         /\ UNCHANGED <<version, session_name>>
    ELSE ArmPanic

MatchOrigin ==
    /\ pc = "match"
    /\ key = "Origin"
    /\ OriginArm(parse_origin(inner_tail))
    /\ UNCHANGED <<input, op, tail, key, iterations>>

SessionNameArm(r) ==
    IF r.kind = "Ok"
    THEN /\ session_name' = r.val
         /\ ArmEnd(r.rem, version, origin, r.val)
         /\ UNCHANGED <<version, origin>>
    ELSE ArmPanic

MatchSessionName ==
    /\ pc = "match"
    /\ key = "SessionName"
    /\ SessionNameArm(parse_session_name(inner_tail))
    /\ UNCHANGED <<input, op, tail, key, iterations>>

(* The match's last arm, unimplemented!("key not implemented"), is dead:   *)
(* peek_key returns no key but the three above.                            *)

Next ==
    \/ CallPeekKey
    \/ CallParseVersion
    \/ CallParseSessionName
    \/ CallParseOrigin
    \/ CallFromStr
    \/ WhileTest
    \/ PeekKey
    \/ MatchVersion
    \/ MatchOrigin
    \/ MatchSessionName

Spec == Init /\ [][Next]_vars

----------------------------------------------------------------------------
(* What the properties say about an input, read off its text alone.        *)

Returns(name) == op = name /\ pc = "done"
Ended(name) == op = name /\ pc \in {"done", "panicked"}

(* Positions where a line starts: the first character and each character   *)
(* after an LF.                                                            *)
LineStarts(s) == {i \in 1..Len(s) : i = 1 \/ s[i - 1] = LF}
LineNumber(s, i) == Cardinality({j \in LineStarts(s) : j <= i})
IsLine(s, i, c) == i + 1 <= Len(s) /\ s[i] = c /\ s[i + 1] = "="
HasLine(s, c) == \E i \in LineStarts(s) : IsLine(s, i, c)
(* The n-th line, when there is one, is a c= line.                         *)
LineIs(s, n, c) == \A i \in LineStarts(s) : LineNumber(s, i) = n => IsLine(s, i, c)
HasDuplicate(s) ==
    \E c \in {"v", "o", "s"} : Cardinality({i \in LineStarts(s) : IsLine(s, i, c)}) > 1

(* The part of the input a returned parser consumed.                       *)
Consumed == Take(input, Len(input) - Len(ret.rem))
EndsWith(s, t) == Len(s) >= Len(t) /\ SubSeq(s, Len(s) - Len(t) + 1, Len(s)) = t

----------------------------------------------------------------------------
(* C1: each iteration of from_str's loop that goes on to another one       *)
(* leaves strictly less unparsed input to the loop test than it found.     *)
C1_UnparsedInputShrinks ==
    [][(op = "from_str" /\ pc = "match" /\ pc' = "while") => Len(tail') < Len(tail)]_vars

(* C2: a Version returned by parse_version, and the version of a           *)
(* SessionDescription returned by from_str, is 0.                          *)
C2_VersionIsZero ==
    /\ (Returns("parse_version") /\ ret.kind = "Ok") => ret.val.version = 0
    /\ (Returns("from_str") /\ ret.kind = "Ok") => ret.val.version.version = 0

(* C3: from_str returns an error when the input has no v= line, no o= line *)
(* or no s= line.                                                          *)
C3_MissingFieldRejected ==
    (Returns("from_str")
        /\ ~(HasLine(input, "v") /\ HasLine(input, "o") /\ HasLine(input, "s")))
    => ret.kind # "Ok"

(* C4: a name returned by parse_session_name is non-empty and is the text  *)
(* between s= and the line terminator.                                     *)
C4_SessionNameNonEmpty ==
    (Returns("parse_session_name") /\ ret.kind = "Ok")
    => /\ ret.val.name # <<>>
       /\ \E term \in {CRLF, <<LF>>, <<>>} :
              input = <<"s", "=">> \o ret.val.name \o term \o ret.rem

(* C5: peek_key and from_str never abort with a panic.                     *)
C5_NoPanic == op \in {"peek_key", "from_str"} => pc # "panicked"

(* C6: a SessionDescription is returned only for an input whose first line *)
(* is v=, whose second line is o= and whose third line is s=.              *)
C6_OrderEnforced ==
    (Returns("from_str") /\ ret.kind = "Ok")
    => LineIs(input, 1, "v") /\ LineIs(input, 2, "o") /\ LineIs(input, 3, "s")

(* C7: from_str on an input with a repeated v=, o= or s= line has ended    *)
(* by the time it has entered its loop body once for every line, and it    *)
(* ends without a SessionDescription.                                      *)
C7_DuplicateRejected ==
    (op = "from_str" /\ HasDuplicate(input))
    => /\ iterations <= Cardinality(LineStarts(input))
       /\ pc = "done" => ret.kind # "Ok"

----------------------------------------------------------------------------
(* Well-formed o= lines, each with the Origin its six fields denote and    *)
(* the input that follows its line terminator.                             *)
OriginCase(un, id, sv, at, ua, term, next) ==
    [text   |-> OriginLine(un, id, sv.text, <<"I", "N">>, at.text, ua.text)
                    \o term \o next,
     origin |-> Origin(un, id, sv.value, "IN", at.value, ua.value),
     rest   |-> next]

OriginCases(names) ==
    {OriginCase(un, id, sv, at, ua, term, next) :
        un \in names, id \in SessionIds,
        sv \in {x \in SessionVersions : x.valid},
        at \in {x \in AddrTypes : x.valid},
        ua \in {x \in Addresses : x.valid},
        term \in {CRLF, <<LF>>}, next \in Followers}

WellFormedOrigins == OriginCases(Usernames)

(* C8: on a well-formed o= line parse_origin returns the Origin made of    *)
(* the line's six fields, and the input after the line terminator.         *)
C8_OriginFields ==
    \A w \in WellFormedOrigins :
        (Ended("parse_origin") /\ input = w.text)
        => ret.kind = "Ok" /\ ret.rem = w.rest /\ ret.val = w.origin

----------------------------------------------------------------------------
FieldParsers == {"parse_version", "parse_origin", "parse_session_name"}

(* C9 as first stated: a field parser accepts a line only when the line    *)
(* ends with CRLF.                                                         *)
C9_CrlfRequired ==
    (op \in FieldParsers /\ pc = "done" /\ ret.kind = "Ok") => EndsWith(Consumed, CRLF)

(* Two results are the same outcome: the same failure, or success with    *)
(* the same value.                                                         *)
SameOutcome(a, b) == a.kind = b.kind /\ (a.kind = "Ok" => a.val = b.val)

OriginLines ==
    {OriginLine(un, id, sv.text, nt, at.text, ua.text) :
        un \in Usernames, id \in SessionIds, sv \in SessionVersions,
        nt \in NetTypes, at \in AddrTypes, ua \in Addresses}

(* C9, amended: no field parser requires CRLF.  Each gives a line ended    *)
(* by a bare LF the outcome it gives the same line ended by CRLF;          *)
(* parse_version and parse_session_name give that outcome also to a line   *)
(* ended by the end of the input; parse_origin alone requires a            *)
(* terminator, CRLF or LF, and accepts no line without one.                *)
C9_TerminatorPolicy ==
    /\ (Returns("parse_origin") /\ ret.kind = "Ok") => EndsWith(Consumed, <<LF>>)
    /\ Ended("parse_origin") =>
           \A l \in OriginLines, next \in Followers :
               input = l \o <<LF>> \o next
               => SameOutcome(ret, parse_origin(l \o CRLF \o next))
    /\ Ended("parse_version") =>
           \A b \in VersionBodies, term \in {<<LF>>, <<>>} :
               input = <<"v", "=">> \o b \o term
               => SameOutcome(ret, parse_version(<<"v", "=">> \o b \o CRLF))
    /\ Ended("parse_session_name") =>
           \A b \in SessionNameBodies, term \in {<<LF>>, <<>>} :
               input = <<"s", "=">> \o b \o term
               => SameOutcome(ret, parse_session_name(<<"s", "=">> \o b \o CRLF))

(* parse_version has accepted a v= line that ends at the end of the input. *)
C9_Witness ==
    /\ Returns("parse_version")
    /\ input = <<"v", "=", "0">>
    /\ ret = Ok(<<>>, Version(0))

----------------------------------------------------------------------------
(* o= lines with a line terminator whose nettype is not IN, whose addrtype *)
(* is not IP4 or IP6, or whose address is no IP literal.                   *)
BadOriginInputs ==
    {OriginLine(un, id, sv.text, nt, at.text, ua.text) \o term \o next :
        un \in Usernames, id \in SessionIds,
        sv \in {x \in SessionVersions : x.valid},
        nt \in NetTypes, at \in AddrTypes, ua \in Addresses,
        term \in {CRLF, <<LF>>}, next \in Followers}
    \ {w.text : w \in WellFormedOrigins}

(* C10: on such a line parse_origin returns a parse failure.               *)
C10_OriginFailure ==
    (Ended("parse_origin") /\ input \in BadOriginInputs)
    => ret.kind \in {"Error", "Incomplete"}

----------------------------------------------------------------------------
(* The text of a consumed line without its terminator.                     *)
LineBody(s) ==
    IF EndsWith(s, CRLF) THEN Take(s, Len(s) - 2)
    ELSE IF EndsWith(s, <<LF>>) THEN Take(s, Len(s) - 1)
    ELSE s

(* C11: what parse_origin consumes when it succeeds is one physical line:  *)
(* no CR or LF occurs in it before its terminator, so a line break         *)
(* between two fields of an o= line makes parse_origin fail.               *)
C11_OneLine ==
    (Returns("parse_origin") /\ ret.kind = "Ok")
    => \A i \in 1..Len(LineBody(Consumed)) : LineBody(Consumed)[i] \notin {CR, LF}

====
